---------------------------- MODULE Spec2Model ----------------------------
(***************************************************************************)
(* ikitaitoko_bot: the LINE webhook front ends (the Lambda handler of      *)
(* src/lambda/handler.py and the Flask /callback + LineHandler of          *)
(* src/agent.py and src/line_handler.py) and the tool functions of         *)
(* src/tools.py, modelled as state machines.                               *)
(*                                                                         *)
(* Texts are sequences of one-character strings, identifiers are records   *)
(* [nm, len] (a name and the number of characters of the identifier), and  *)
(* every external service (agent runtime, push endpoint, document store,   *)
(* address search) answers with an outcome chosen by the environment.      *)
(***************************************************************************)
EXTENDS Integers, Sequences, FiniteSets, TLC

(***************************************************************************)
(* Bounds of the model.                                                    *)
(***************************************************************************)
\* largest number of events in one webhook body
MaxBatch == 2
\* longest message text of the mention-stripping specification
MaxLen == 3
\* largest number of mention entries of the mention-stripping specification
MaxSpans == 2
\* largest number of records the document store returns
MaxRecords == 2

(***************************************************************************)
(* Program constants.                                                      *)
(***************************************************************************)
\* invoke_agent_core: the runtime session id needs at least 33 characters
MinSessionLen == 33
\* create_session_manager: .ljust(33, "_")
PadWidth == 33
\* len("ikitaitoko_bot_session_")
SessionPrefixLen == 23

Min(a, b) == IF a < b THEN a ELSE b
Max(a, b) == IF a > b THEN a ELSE b

\* Python s[:n] for n >= 0
Take(s, n) == SubSeq(s, 1, Min(n, Len(s)))
\* Python s[n:] for n >= 0
Drop(s, n) == SubSeq(s, Min(n, Len(s)) + 1, Len(s))

(***************************************************************************)
(* Inbound events.                                                         *)
(***************************************************************************)
NoId == [nm |-> "none", len |-> 0]
\* message.get('mention') is None
NoMention == [present |-> FALSE, mentionees |-> <<>>]
Mention(ms) == [present |-> TRUE, mentionees |-> ms]
\* message.get('latitude') is None
NoCoord == "None"

\* characters str.split() treats as separators
Whitespace == {" ", "\t"}

UserShort == [nm |-> "U-short", len |-> 12]
UserLine == [nm |-> "U-line", len |-> 33]
GroupLine == [nm |-> "C-line", len |-> 33]
RoomShort == [nm |-> "R-short", len |-> 12]

SrcUser == [type |-> "user", userId |-> UserShort, groupId |-> NoId, roomId |-> NoId]
SrcUserLine == [type |-> "user", userId |-> UserLine, groupId |-> NoId, roomId |-> NoId]
SrcGroup == [type |-> "group", userId |-> UserLine, groupId |-> GroupLine, roomId |-> NoId]
SrcRoom == [type |-> "room", userId |-> UserShort, groupId |-> NoId, roomId |-> RoomShort]

Mentionee(i, l, self) == [index |-> i, length |-> l, isSelf |-> self]

TextMessage(text, mention) ==
    [type |-> "text", text |-> text, mention |-> mention,
     title |-> "", address |-> "", latitude |-> NoCoord, longitude |-> NoCoord]

LocationMessage(title, address, lat, lon) ==
    [type |-> "location", text |-> <<>>, mention |-> NoMention,
     title |-> title, address |-> address, latitude |-> lat, longitude |-> lon]

OtherMessage(kind) ==
    [type |-> kind, text |-> <<>>, mention |-> NoMention,
     title |-> "", address |-> "", latitude |-> NoCoord, longitude |-> NoCoord]

MessageEvent(src, msg) == [type |-> "message", source |-> src, message |-> msg]

TextHi == <<"@", "B", " ", "h", "i">>
TextOnlyMention == <<"@", "B">>
TextBlank == <<" ">>
TextPlain == <<"h", "i">>

MentionSelf == Mention(<<Mentionee(0, 2, TRUE)>>)
MentionOther == Mention(<<Mentionee(0, 2, FALSE)>>)

\* one-to-one chats, a group and a room; texts with and without a mention of
\* the bot, texts that are empty once the mention is removed; locations with
\* every optional field present, absent, and with half a coordinate; other
\* message kinds and an event that is no message
Events ==
    { MessageEvent(SrcUser, TextMessage(t, NoMention)) : t \in {TextPlain, TextBlank} }
    \cup { MessageEvent(SrcUser, TextMessage(TextHi, MentionOther)),
           MessageEvent(SrcUserLine, TextMessage(TextPlain, NoMention)) }
    \cup { MessageEvent(SrcGroup, TextMessage(TextHi, m)) : m \in {MentionSelf, MentionOther} }
    \cup { MessageEvent(SrcGroup, TextMessage(TextPlain, NoMention)),
           MessageEvent(SrcGroup, TextMessage(TextOnlyMention, MentionSelf)),
           MessageEvent(SrcRoom, TextMessage(TextHi, MentionSelf)),
           MessageEvent(SrcRoom, TextMessage(TextPlain, NoMention)) }
    \cup { MessageEvent(SrcUser, LocationMessage("", "", NoCoord, NoCoord)),
           MessageEvent(SrcUser, LocationMessage("Tower", "Minato", "35.6", "139.7")),
           MessageEvent(SrcUser, LocationMessage("", "Minato", "35.6", NoCoord)),
           MessageEvent(SrcGroup, LocationMessage("Tower", "", NoCoord, NoCoord)),
           MessageEvent(SrcRoom, LocationMessage("", "", "35.6", "139.7")) }
    \cup { MessageEvent(SrcUser, OtherMessage("image")),
           [type |-> "follow", source |-> SrcUser, message |-> OtherMessage("none")] }

(***************************************************************************)
(* src/lambda/handler.py: the pure functions of process_event.             *)
(***************************************************************************)
\* is_bot_mentioned without the isSelf test: any mention counts
is_bot_mentioned_any_mention(event) ==
    IF event.source.type = "user" THEN TRUE
    ELSE IF ~event.message.mention.present THEN FALSE
    ELSE event.message.mention.mentionees # <<>>

is_bot_mentioned(event) ==
    IF event.source.type = "user" THEN TRUE
    ELSE IF ~event.message.mention.present THEN FALSE
    ELSE \E i \in DOMAIN event.message.mention.mentionees :
            event.message.mention.mentionees[i].isSelf

\* sorted(mentionees, key=index, reverse=True): stable, so entries with the
\* same index keep the order of the list
RECURSIVE InsertDesc(_, _)
InsertDesc(m, sorted) ==
    IF sorted = <<>> THEN <<m>>
    ELSE IF Head(sorted).index >= m.index
         THEN <<Head(sorted)>> \o InsertDesc(m, Tail(sorted))
         ELSE <<m>> \o sorted

RECURSIVE SortDesc(_)
SortDesc(ms) ==
    IF ms = <<>> THEN <<>>
    ELSE InsertDesc(ms[Len(ms)], SortDesc(SubSeq(ms, 1, Len(ms) - 1)))

\* text = text[:start] + text[start + length:]
RemoveSpan(text, m) == Take(text, m.index) \o Drop(text, m.index + m.length)

RECURSIVE RemoveSpans(_, _)
RemoveSpans(text, ms) ==
    IF ms = <<>> THEN text
    ELSE RemoveSpans(RemoveSpan(text, Head(ms)), Tail(ms))

\* ' '.join(text.split()).strip()
RECURSIVE SplitJoin(_, _, _)
SplitJoin(text, acc, gap) ==
    IF text = <<>> THEN acc
    ELSE IF Head(text) \in Whitespace THEN SplitJoin(Tail(text), acc, TRUE)
    ELSE SplitJoin(Tail(text),
                   IF gap /\ acc # <<>> THEN acc \o <<" ", Head(text)>>
                   ELSE Append(acc, Head(text)),
                   FALSE)

CollapseWhitespace(text) == SplitJoin(text, <<>>, FALSE)

\* extract_message_text removing the spans in the order of the list
extract_message_text_unsorted(event) ==
    LET text == event.message.text
        stripped == IF event.message.mention.present
                    THEN RemoveSpans(text, event.message.mention.mentionees)
                    ELSE text
    IN  CollapseWhitespace(stripped)

extract_message_text(event) ==
    LET text == event.message.text
        stripped == IF event.message.mention.present
                    THEN RemoveSpans(text, SortDesc(event.message.mention.mentionees))
                    ELSE text
    IN  CollapseWhitespace(stripped)

\* the lines joined by '\n', kept as the sequence of lines
extract_location_text(message) ==
    <<"user shared current location">>
    \o (IF message.title # "" THEN <<"title: " \o message.title>> ELSE <<>>)
    \o (IF message.address # "" THEN <<"address: " \o message.address>> ELSE <<>>)
    \o (IF message.latitude # NoCoord /\ message.longitude # NoCoord
        THEN <<"lat: " \o message.latitude \o ", lon: " \o message.longitude>>
        ELSE <<>>)

get_reply_to_id(event) ==
    IF event.source.type = "group" THEN event.source.groupId
    ELSE IF event.source.type = "room" THEN event.source.roomId
    ELSE event.source.userId

get_session_id(event) ==
    IF event.source.type = "group" THEN event.source.groupId
    ELSE IF event.source.type = "room" THEN event.source.roomId
    ELSE event.source.userId

(***************************************************************************)
(* src/line_handler.py: the pure functions of LineHandler.                 *)
(***************************************************************************)
LineHandler_is_bot_mentioned(event) ==
    IF event.source.type = "user" THEN TRUE
    ELSE IF ~event.message.mention.present THEN FALSE
    ELSE \E i \in DOMAIN event.message.mention.mentionees :
            event.message.mention.mentionees[i].isSelf

LineHandler_extract_message_text(event) ==
    LET text == event.message.text
        stripped == IF event.message.mention.present
                    THEN RemoveSpans(text, SortDesc(event.message.mention.mentionees))
                    ELSE text
    IN  CollapseWhitespace(stripped)

LineHandler_get_reply_to_id(event) ==
    IF event.source.type = "group" THEN event.source.groupId
    ELSE IF event.source.type = "room" THEN event.source.roomId
    ELSE event.source.userId

\* (session_id, actor_id)
LineHandler_get_session_info(event) ==
    [session_id |-> IF event.source.type = "group" THEN event.source.groupId
                    ELSE IF event.source.type = "room" THEN event.source.roomId
                    ELSE event.source.userId,
     actor_id |-> event.source.userId]

\* @self.handler.add(MessageEvent, message=TextMessageContent): the only
\* handler LineHandler registers, and it registers no default handler
LineHandler_registered(event) ==
    event.type = "message" /\ event.message.type = "text"

(***************************************************************************)
(* Webhook requests.                                                       *)
(***************************************************************************)
\* LINE_CHANNEL_SECRET of the deployment
ChannelSecret == "channel-secret"

\* the raw body: a JSON envelope with its events, or bytes that are no JSON
JsonBody(evts) == [json |-> TRUE, events |-> evts]
NotJsonBody == [json |-> FALSE, events |-> <<>>]

\* base64(HMAC-SHA256(key, body)): a value that names its key and its message,
\* so two signatures are equal only for the same key and the same body
Hmac(key, body) == [present |-> TRUE, key |-> key, msg |-> body]
\* the X-Line-Signature header is absent (read as '')
NoSignature == [present |-> FALSE, key |-> "", msg |-> NotJsonBody]

\* a body other than the one sent
OtherBody(body) == IF body = NotJsonBody THEN JsonBody(<<>>) ELSE NotJsonBody

SignaturesFor(body) ==
    { NoSignature, Hmac(ChannelSecret, body), Hmac("other-secret", body),
      Hmac(ChannelSecret, OtherBody(body)) }

Request(front, body, signature) ==
    [front |-> front, body |-> body, signature |-> signature]

verify_signature(body, signature) ==
    IF ~signature.present THEN FALSE
    ELSE IF ChannelSecret = "" THEN FALSE
    ELSE signature = Hmac(ChannelSecret, body)

\* LineHandler.handle_webhook -> WebhookHandler.handle: raises
\* InvalidSignatureError unless the signature is the HMAC of the body
LineHandler_signature_valid(body, signature) ==
    signature.present /\ signature = Hmac(ChannelSecret, body)

(***************************************************************************)
(* The agent runtime and the push endpoint.                                *)
(***************************************************************************)
\* values str(uuid.uuid4())[:16] may take
Uuids == {"uuid-a", "uuid-b"}

\* the text the agent answers with
AgentReply == "agent reply"
\* the body agentcore_app.invoke returns when the agent fails:
\* {"error": ..., "details": str(e)}
ErrorPayload == "{error, details: exception text}"
\* the fixed messages of process_event / _process_message_async and of invoke_agent
Apology == "apology: an error occurred, try again later"
AgentApology == "apology: an error occurred while processing"

\* invoke_agent_runtime: a result body, an error body, or a raised exception
AgentOutcomes == {"result", "error", "raise"}
\* invoke_agent: the agent's text, or an exception caught inside invoke_agent
CallbackOutcomes == {"result", "caught"}
PushOutcomes == {"ok", "fail"}

NoDispatch ==
    [dispatched |-> FALSE, prompt |-> <<>>, reply_to_id |-> NoId,
     session_id |-> NoId, actor_id |-> NoId]

Dispatch(prompt, reply_to_id, session_id, actor_id) ==
    [dispatched |-> TRUE, prompt |-> prompt, reply_to_id |-> reply_to_id,
     session_id |-> session_id, actor_id |-> actor_id]

\* the identifier a front end hands to the agent runtime / memory service:
\* prefix + base + suffix, right-padded with pad characters
SessionKey(prefix, base, suffix, pad) ==
    [prefix |-> prefix, base |-> base, suffix |-> suffix, pad |-> pad]

\* runtimeSessionId of invoke_agent_core
runtime_session_id(session_id, uuid) ==
    IF session_id.len < MinSessionLen
    THEN SessionKey("", session_id, uuid, 0)
    ELSE SessionKey("", session_id, "", 0)

\* padded_session_id of create_session_manager
padded_session_id(session_id) ==
    SessionKey("ikitaitoko_bot_session_", session_id, "",
               Max(0, PadWidth - SessionPrefixLen - session_id.len))

AgentCall(prompt, session_id, actor_id, key) ==
    [prompt |-> prompt, session_id |-> session_id, actor_id |-> actor_id,
     runtime_session |-> key]

Push(to, text, outcome) == [to |-> to, text |-> text, outcome |-> outcome]

\* agent_outcome: how the invocation of the agent ended, "none" without one
NoEffects ==
    [dispatch |-> NoDispatch, agent |-> <<>>, agent_outcome |-> "none", pushes |-> <<>>]

\* the instruction text of an event, <<>> when process_event returns before
\* or at "Empty message, skipping"
user_message_of(event) ==
    IF event.type # "message" THEN <<>>
    ELSE IF event.message.type = "location" THEN extract_location_text(event.message)
    ELSE IF event.message.type = "text"
         THEN IF ~is_bot_mentioned(event) THEN <<>> ELSE extract_message_text(event)
    ELSE <<>>

\* process_event: the dispatch it decides on, the call to the agent runtime and
\* the pushes it makes, for the outcomes the runtime and the push endpoint give
process_event(event, agentOut, push1, push2, uuid) ==
    LET user_message == user_message_of(event)
        reply_to_id == get_reply_to_id(event)
        session_id == get_session_id(event)
        d == Dispatch(user_message, reply_to_id, session_id, NoId)
        call == AgentCall(user_message, session_id, NoId,
                          runtime_session_id(session_id, uuid))
        response_text == IF agentOut = "result" THEN AgentReply ELSE ErrorPayload
    IN  IF user_message = <<>> THEN NoEffects
        ELSE IF agentOut = "raise"
             THEN [dispatch |-> d, agent |-> <<call>>, agent_outcome |-> agentOut,
                   pushes |-> <<Push(reply_to_id, Apology, push2)>>]
        ELSE IF push1 = "ok"
             THEN [dispatch |-> d, agent |-> <<call>>, agent_outcome |-> agentOut,
                   pushes |-> <<Push(reply_to_id, response_text, push1)>>]
        ELSE [dispatch |-> d, agent |-> <<call>>, agent_outcome |-> agentOut,
              pushes |-> <<Push(reply_to_id, response_text, push1),
                           Push(reply_to_id, Apology, push2)>>]

\* LineHandler._handle_text_message: the arguments of the background thread it
\* starts, NoDispatch when it returns without starting one
LineHandler_handle_text_message(event) ==
    IF ~LineHandler_is_bot_mentioned(event) THEN NoDispatch
    ELSE LET user_message == LineHandler_extract_message_text(event)
             info == LineHandler_get_session_info(event)
         IN  IF user_message = <<>> THEN NoDispatch
             ELSE Dispatch(user_message, LineHandler_get_reply_to_id(event),
                           info.session_id, info.actor_id)

\* WebhookHandler.handle for one event: the registered handler, if any
LineHandler_handle_event(event) ==
    IF LineHandler_registered(event) THEN LineHandler_handle_text_message(event)
    ELSE NoDispatch

\* LineHandler._process_message_async with invoke_agent as the callback
LineHandler_process_message_async(d, cbOut, pushOut) ==
    LET response_text == IF cbOut = "result" THEN AgentReply ELSE AgentApology
    IN  [dispatch |-> d,
         agent |-> <<AgentCall(d.prompt, d.session_id, d.actor_id,
                               padded_session_id(d.session_id))>>,
         agent_outcome |-> cbOut,
         pushes |-> <<Push(d.reply_to_id, response_text, pushOut)>>]

(***************************************************************************)
(* State.                                                                  *)
(***************************************************************************)
VARIABLES
    \* the webhook request: [front, body, signature]
    req,
    \* where the endpoint is: "arrived", "loop", "returned" ("off": no request)
    pc,
    \* the events of the body still to be handled (the for loops)
    events,
    \* the HTTP response of the endpoint
    resp,
    \* the background threads LineHandler has started and that have not run yet
    threads,
    \* the event handled last, with the dispatch decided for it
    cur,
    \* the calls to the agent and to the push endpoint made for the event (Lambda)
    \* or by the thread (LineHandler) that ran last
    eff,
    \* every call to the agent made for the request: [conv, runtime_session]
    agentLog,
    \* the mention-stripping specification: the event, and the text extracted
    stripIn, stripOut,
    \* the tool specification: the call, the external requests it issued, its result
    toolCall, toolLog, toolResult,
    \* the singleton specification: the module global _notion_mcp_client, and for
    \* every thread its position in get_notion_mcp_client, the client it has
    \* constructed and not yet stored, and the client returned to it
    notion_mcp_client, mcpPc, mcpNew, mcpGot,
    \* the number of times create_notion_mcp_client has run
    mcpCreated

whVars == <<req, pc, events, resp, threads, cur, eff, agentLog>>
stripVars == <<stripIn, stripOut>>
toolVars == <<toolCall, toolLog, toolResult>>
mcpVars == <<notion_mcp_client, mcpPc, mcpNew, mcpGot, mcpCreated>>
vars == <<req, pc, events, resp, threads, cur, eff, agentLog,
          stripIn, stripOut, toolCall, toolLog, toolResult,
          notion_mcp_client, mcpPc, mcpNew, mcpGot, mcpCreated>>

NoRequest == [front |-> "none", body |-> NotJsonBody, signature |-> NoSignature]
NoResponse == [statusCode |-> 0, body |-> "none"]
Response(code, body) == [statusCode |-> code, body |-> body]
NoEvent == [type |-> "none", source |-> SrcUser, message |-> OtherMessage("none")]
NoCur == [handled |-> FALSE, event |-> NoEvent, dispatch |-> NoDispatch]
Handled(event, d) == [handled |-> TRUE, event |-> event, dispatch |-> d]
NoEff == [ran |-> FALSE, effects |-> NoEffects]
Ran(e) == [ran |-> TRUE, effects |-> e]

NoStripOut == [done |-> FALSE, by |-> "none", text |-> <<>>]
NoToolCall == [name |-> "none"]
NoToolResult == [returned |-> FALSE]

WebhookIdle ==
    /\ req = NoRequest /\ pc = "off" /\ events = <<>> /\ resp = NoResponse
    /\ threads = <<>> /\ cur = NoCur /\ eff = NoEff /\ agentLog = <<>>
StripIdle == stripIn = NoEvent /\ stripOut = NoStripOut
ToolIdle == toolCall = NoToolCall /\ toolLog = <<>> /\ toolResult = NoToolResult

\* "_notion_mcp_client = None", and an instance create_notion_mcp_client returns
NoClient == [made |-> FALSE, by |-> 0]
Client(t) == [made |-> TRUE, by |-> t]

\* no thread has been started
McpIdle ==
    /\ notion_mcp_client = NoClient /\ mcpCreated = 0
    /\ mcpPc = <<>> /\ mcpNew = <<>> /\ mcpGot = <<>>

LogEntries(e) ==
    [i \in DOMAIN e.agent |->
        [conv |-> e.agent[i].session_id, runtime_session |-> e.agent[i].runtime_session]]

(***************************************************************************)
(* src/lambda/handler.py: lambda_handler.                                  *)
(***************************************************************************)
\* lines 18-39: signature check, json.loads, the events of the body
LambdaReceive ==
    /\ req.front = "lambda" /\ pc = "arrived"
    /\ IF ~verify_signature(req.body, req.signature)
       THEN /\ resp' = Response(200, "invalid signature")
            /\ pc' = "returned" /\ events' = <<>>
       ELSE IF ~req.body.json
       THEN \* json.loads raises, caught by the outer except
            /\ resp' = Response(200, "ok")
            /\ pc' = "returned" /\ events' = <<>>
       ELSE IF req.body.events = <<>>
       THEN /\ resp' = Response(200, "ok")
            /\ pc' = "returned" /\ events' = <<>>
       ELSE /\ pc' = "loop" /\ events' = req.body.events
            /\ UNCHANGED resp
    /\ UNCHANGED <<req, threads, cur, eff, agentLog>>
    /\ UNCHANGED <<stripVars, toolVars, mcpVars>>

\* the agent or a push failed while the event was processed
processing_failed(e) ==
    \/ e.agent_outcome \in {"raise", "error"}
    \/ \E i \in DOMAIN e.pushes : e.pushes[i].outcome = "fail"

\* a loop that gives up the rest of the batch when an event fails
remaining_events_until_failure(evts, e) ==
    IF processing_failed(e) THEN <<>> ELSE Tail(evts)

\* "for evt in events: try: process_event(evt) except Exception": the loop goes
\* on with the next event whatever happened to this one
remaining_events(evts, e) == Tail(evts)

\* lines 42-46: one iteration of the loop, process_event to its end
LambdaProcessEvent ==
    /\ req.front = "lambda" /\ pc = "loop" /\ events # <<>>
    /\ \E agentOut \in AgentOutcomes, push1 \in PushOutcomes,
          push2 \in PushOutcomes, uuid \in Uuids :
          LET e == process_event(Head(events), agentOut, push1, push2, uuid)
          IN  /\ cur' = Handled(Head(events), e.dispatch)
              /\ eff' = Ran(e)
              /\ agentLog' = agentLog \o LogEntries(e)
              /\ events' = remaining_events(events, e)
    /\ UNCHANGED <<req, pc, resp, threads>>
    /\ UNCHANGED <<stripVars, toolVars, mcpVars>>

\* line 48
LambdaReturn ==
    /\ req.front = "lambda" /\ pc = "loop" /\ events = <<>>
    /\ resp' = Response(200, "ok")
    /\ pc' = "returned"
    /\ UNCHANGED <<req, events, threads, cur, eff, agentLog>>
    /\ UNCHANGED <<stripVars, toolVars, mcpVars>>

(***************************************************************************)
(* src/agent.py: callback, and src/line_handler.py: LineHandler.           *)
(***************************************************************************)
\* callback, up to the first event: handle_webhook checks the signature and
\* parses the body
FlaskReceive ==
    /\ req.front = "flask" /\ pc = "arrived"
    /\ IF ~LineHandler_signature_valid(req.body, req.signature)
       THEN \* except InvalidSignatureError: abort(400)
            /\ resp' = Response(400, "Bad Request")
            /\ pc' = "returned" /\ events' = <<>>
       ELSE IF ~req.body.json
       THEN \* except Exception: abort(500)
            /\ resp' = Response(500, "Internal Server Error")
            /\ pc' = "returned" /\ events' = <<>>
       ELSE /\ pc' = "loop" /\ events' = req.body.events
            /\ UNCHANGED resp
    /\ UNCHANGED <<req, threads, cur, eff, agentLog>>
    /\ UNCHANGED <<stripVars, toolVars, mcpVars>>

\* WebhookHandler.handle calls the handler registered for the event, and
\* _handle_text_message starts the background thread
FlaskHandleEvent ==
    /\ req.front = "flask" /\ pc = "loop" /\ events # <<>>
    /\ LET d == LineHandler_handle_event(Head(events))
       IN  /\ cur' = Handled(Head(events), d)
           /\ threads' = IF d.dispatched THEN Append(threads, d) ELSE threads
    /\ events' = Tail(events)
    /\ UNCHANGED <<req, pc, resp, eff, agentLog>>
    /\ UNCHANGED <<stripVars, toolVars, mcpVars>>

\* return "OK"
FlaskReturn ==
    /\ req.front = "flask" /\ pc = "loop" /\ events = <<>>
    /\ resp' = Response(200, "OK")
    /\ pc' = "returned"
    /\ UNCHANGED <<req, events, threads, cur, eff, agentLog>>
    /\ UNCHANGED <<stripVars, toolVars, mcpVars>>

\* a background thread runs _process_message_async
ThreadRun ==
    /\ \E i \in DOMAIN threads, cbOut \in CallbackOutcomes, pushOut \in PushOutcomes :
          LET e == LineHandler_process_message_async(threads[i], cbOut, pushOut)
          IN  /\ eff' = Ran(e)
              /\ agentLog' = agentLog \o LogEntries(e)
              /\ threads' = SubSeq(threads, 1, i - 1) \o SubSeq(threads, i + 1, Len(threads))
    /\ UNCHANGED <<req, pc, events, resp, cur>>
    /\ UNCHANGED <<stripVars, toolVars, mcpVars>>

\* a request arrives at one of the two endpoints
Init ==
    /\ \E f \in {"lambda", "flask"} :
          \/ \E n \in 0..MaxBatch : \E evts \in [1..n -> Events] :
                \E g \in SignaturesFor(JsonBody(evts)) : req = Request(f, JsonBody(evts), g)
          \/ \E g \in SignaturesFor(NotJsonBody) : req = Request(f, NotJsonBody, g)
    /\ pc = "arrived" /\ events = <<>> /\ resp = NoResponse
    /\ threads = <<>> /\ cur = NoCur /\ eff = NoEff /\ agentLog = <<>>
    /\ StripIdle /\ ToolIdle /\ McpIdle

Next ==
    \/ LambdaReceive \/ LambdaProcessEvent \/ LambdaReturn
    \/ FlaskReceive \/ FlaskHandleEvent \/ FlaskReturn \/ ThreadRun

Spec == Init /\ [][Next]_vars

(***************************************************************************)
(* Mention stripping on its own: extract_message_text and                  *)
(* LineHandler._extract_message_text applied to a text event.              *)
(***************************************************************************)
Chars == {"a", "b", " "}
\* mention entries: index 0..MaxLen, length 1 or 2
Spans == { Mentionee(i, l, TRUE) : i \in 0..MaxLen, l \in 1..2 }

\* spec section 8: "@Bot hello world" with the span (0, 4)
ExampleText ==
    <<"@", "B", "o", "t", " ", "h", "e", "l", "l", "o", " ", "w", "o", "r", "l", "d">>
ExampleEvent ==
    MessageEvent(SrcGroup, TextMessage(ExampleText, Mention(<<Mentionee(0, 4, TRUE)>>)))

InitStrip ==
    /\ \/ \E n \in 0..MaxLen, k \in 0..MaxSpans :
             \E t \in [1..n -> Chars], ms \in [1..k -> Spans] :
                stripIn = MessageEvent(SrcGroup, TextMessage(t, Mention(ms)))
       \/ stripIn = ExampleEvent
    /\ stripOut = NoStripOut
    /\ WebhookIdle /\ ToolIdle /\ McpIdle

StripLambda ==
    /\ ~stripOut.done
    /\ stripOut' = [done |-> TRUE, by |-> "lambda", text |-> extract_message_text(stripIn)]
    /\ UNCHANGED <<stripIn, whVars, toolVars, mcpVars>>

StripLineHandler ==
    /\ ~stripOut.done
    /\ stripOut' = [done |-> TRUE, by |-> "flask",
                    text |-> LineHandler_extract_message_text(stripIn)]
    /\ UNCHANGED <<stripIn, whVars, toolVars, mcpVars>>

NextStrip == StripLambda \/ StripLineHandler

SpecStrip == InitStrip /\ [][NextStrip]_vars

(***************************************************************************)
(* Properties of the webhook front ends.                                   *)
(***************************************************************************)
\* the characters of text that no mention entry covers, in their order
RECURSIVE UncoveredFrom(_, _, _)
UncoveredFrom(text, ms, i) ==
    IF i > Len(text) THEN <<>>
    ELSE (IF \E j \in DOMAIN ms : ms[j].index < i /\ i <= ms[j].index + ms[j].length
          THEN <<>> ELSE <<text[i]>>)
         \o UncoveredFrom(text, ms, i + 1)

Uncovered(text, ms) == UncoveredFrom(text, ms, 1)

\* the invariant of spec section 3: a location message, a one-to-one text, or
\* a group/room text with a mention entry that has is_self
ShouldRespond(event) ==
    /\ event.type = "message"
    /\ \/ event.message.type = "location"
       \/ event.message.type = "text" /\ event.source.type = "user"
       \/ /\ event.message.type = "text"
          /\ event.source.type \in {"group", "room"}
          /\ \E i \in DOMAIN event.message.mention.mentionees :
                event.message.mention.mentionees[i].isSelf = TRUE

\* a text message that holds nothing but mentions and whitespace
BlankInstruction(event) ==
    /\ event.message.type = "text"
    /\ \A c \in { Uncovered(event.message.text, event.message.mention.mentionees)[i] :
                    i \in DOMAIN Uncovered(event.message.text,
                                           event.message.mention.mentionees) } :
          c \in Whitespace

LambdaHandled == req.front = "lambda" /\ cur.handled
FlaskHandled == req.front = "flask" /\ cur.handled

\* C1, as claimed: process_event invokes the agent for a message event if and
\* only if the event is a location message, a one-to-one text message or a
\* group/room text message with a self mention, and makes no agent call and no
\* push for any other event.
C1_DispatchIffShouldRespond ==
    (LambdaHandled /\ cur.event.type = "message") =>
        /\ Len(eff.effects.agent) = 1 <=> ShouldRespond(cur.event)
        /\ ~ShouldRespond(cur.event) =>
              eff.effects.agent = <<>> /\ eff.effects.pushes = <<>>

\* C1, amended: process_event invokes the agent for a message event if and
\* only if the event passes the check above and its instruction text is not
\* empty once mentions are removed and whitespace is collapsed; for every
\* other event it makes no agent call and no push.
C1_DispatchIffNonEmptyInstruction ==
    (LambdaHandled /\ cur.event.type = "message") =>
        LET wanted == ShouldRespond(cur.event) /\ ~BlankInstruction(cur.event)
        IN  /\ cur.dispatch.dispatched <=> wanted
            /\ Len(eff.effects.agent) = 1 <=> wanted
            /\ ~wanted => eff.effects.agent = <<>> /\ eff.effects.pushes = <<>>

\* a group text that mentions the bot was handled: the agent was invoked once
\* with the text left after the mention, and the reply was pushed
C1_Witness ==
    /\ LambdaHandled
    /\ cur.event = MessageEvent(SrcGroup, TextMessage(TextHi, MentionSelf))
    /\ cur.dispatch.dispatched /\ cur.dispatch.prompt = TextPlain
    /\ Len(eff.effects.agent) = 1 /\ Len(eff.effects.pushes) >= 1

\* C2: a location message is dispatched with the synthesized instruction text
\* whatever its source and optional fields, by the Lambda front end and by
\* the LineHandler front end.
C2_LocationAlwaysDispatches ==
    (cur.handled /\ cur.event.type = "message" /\ cur.event.message.type = "location") =>
        /\ cur.dispatch.dispatched
        /\ cur.dispatch.prompt = extract_location_text(cur.event.message)

\* the session id and the sender id the platform identifiers give
ExpectedSession(event) ==
    CASE event.source.type = "group" -> event.source.groupId
      [] event.source.type = "room" -> event.source.roomId
      [] OTHER -> event.source.userId

\* C4: for a dispatched event session_id is the group, room or sender id,
\* actor_id is the sender id, reply_target equals session_id, and the agent
\* invocation and the push receive the three unchanged. (For the Lambda front
\* end the calls are those of eff, made in the step that handled the event.)
C4_SessionActorReplyPassedOn ==
    (cur.handled /\ cur.dispatch.dispatched) =>
        /\ cur.dispatch.session_id = ExpectedSession(cur.event)
        /\ cur.dispatch.actor_id = cur.event.source.userId
        /\ cur.dispatch.reply_to_id = cur.dispatch.session_id
        /\ req.front = "lambda" =>
              /\ eff.effects.agent[1].session_id = cur.dispatch.session_id
              /\ eff.effects.agent[1].actor_id = cur.event.source.userId
              /\ \A i \in DOMAIN eff.effects.pushes :
                    eff.effects.pushes[i].to = cur.dispatch.reply_to_id

\* C5: two agent invocations for the same conversation hand the same session
\* identifier to the agent runtime / memory service.
C5_SessionKeyStable ==
    \A i, j \in DOMAIN agentLog :
        agentLog[i].conv = agentLog[j].conv =>
            agentLog[i].runtime_session = agentLog[j].runtime_session

SignatureMatches == req.signature.present /\ req.signature = Hmac(ChannelSecret, req.body)

\* C6: with a missing or wrong signature the endpoint handles no event and
\* answers with a success status; with the right signature the events of the
\* body are handled. For lambda_handler and for the Flask /callback.
C6_InvalidSignatureAcknowledged ==
    pc = "returned" =>
        /\ ~SignatureMatches =>
              /\ resp.statusCode = 200
              /\ cur = NoCur /\ eff = NoEff /\ threads = <<>> /\ agentLog = <<>>
        /\ (SignatureMatches /\ req.body.json /\ req.body.events # <<>>) => cur.handled

(***************************************************************************)
(* Properties of mention stripping.                                        *)
(***************************************************************************)
\* whitespace collapsing, stated on positions: every character that is no
\* whitespace is kept, and one space separates two of them exactly when
\* whitespace lies between them
RECURSIVE CollapsedFrom(_, _, _)
CollapsedFrom(t, i, seen) ==
    IF i > Len(t) THEN <<>>
    ELSE IF t[i] \in Whitespace THEN CollapsedFrom(t, i + 1, seen)
    ELSE (IF seen /\ t[i - 1] \in Whitespace THEN <<" ", t[i]>> ELSE <<t[i]>>)
         \o CollapsedFrom(t, i + 1, TRUE)

Collapsed(t) == CollapsedFrom(t, 1, FALSE)

\* the positions (from 0) a mention entry covers
Covered(m) == m.index .. (m.index + m.length - 1)

PairwiseDisjoint(ms) ==
    \A i, j \in DOMAIN ms : i # j => Covered(ms[i]) \cap Covered(ms[j]) = {}

\* the orders in which the entries of ms can be listed
Reorderings(ms) ==
    { [i \in DOMAIN ms |-> ms[p[i]]] :
        p \in { q \in [DOMAIN ms -> DOMAIN ms] : \A a, b \in DOMAIN ms : a # b => q[a] # q[b] } }

ExtractBy(by, event) ==
    IF by = "lambda" THEN extract_message_text(event)
    ELSE LineHandler_extract_message_text(event)

StripText == stripIn.message.text
StripSpans == stripIn.message.mention.mentionees

OrderIndependent ==
    \A ms \in Reorderings(StripSpans) :
        ExtractBy(stripOut.by, MessageEvent(SrcGroup, TextMessage(StripText, Mention(ms))))
            = stripOut.text

\* C3, as claimed: for every text and every list of mention spans the text
\* extracted is the whitespace-collapsed text of the characters no span
\* covers, and it does not depend on the order of the list.
C3_StripEqualsUncovered ==
    stripOut.done =>
        /\ stripOut.text = Collapsed(Uncovered(StripText, StripSpans))
        /\ OrderIndependent

\* C3, amended: for every text and every list of mention spans of which no
\* two overlap, the text extracted is the whitespace-collapsed text of the
\* characters no span covers; "@Bot hello world" with the span (0, 4) gives
\* "hello world"; and for every list, overlapping or not, the result does
\* not depend on the order of the list.
C3_StripDisjointSpans ==
    stripOut.done =>
        /\ PairwiseDisjoint(StripSpans) =>
              stripOut.text = Collapsed(Uncovered(StripText, StripSpans))
        /\ stripIn = ExampleEvent =>
              stripOut.text = <<"h", "e", "l", "l", "o", " ", "w", "o", "r", "l", "d">>
        /\ OrderIndependent

\* two disjoint spans inside the text, listed in ascending order, were removed
\* and text is left
C3_Witness ==
    /\ stripOut.done
    /\ Len(StripSpans) = 2 /\ PairwiseDisjoint(StripSpans)
    /\ StripSpans[1].index < StripSpans[2].index
    /\ StripSpans[2].index + StripSpans[2].length <= Len(StripText)
    /\ stripOut.text # <<>>

(***************************************************************************)
(* src/tools.py: the tool functions. The document store and the address    *)
(* search answer with outcomes the environment chooses.                    *)
(***************************************************************************)
\* valid_categories (travel, dining, shopping, other) and valid_priorities
\* (high, medium, low), written with the English names of the spec
valid_categories == {"travel", "dining", "shopping", "other"}
valid_priorities == {"high", "medium", "low"}

\* places_without_address[:5]
MaxUnlocatableShown == 5

Request_(service, arg) == [service |-> service, arg |-> arg]

NotFound == [found |-> FALSE, lat |-> 0, lon |-> 0]
Coordinate(lat, lon) == [found |-> TRUE, lat |-> lat, lon |-> lon]

\* what geocode_address may return: None, or a point of the meridian 139 E
\* at a whole degree of latitude
GeoOutcomes == {NotFound} \cup { Coordinate(lat, 139) : lat \in 35..37 }

\* the Haversine distance of two points of one meridian is R * |lat2 - lat1|
\* (in radians); here in units of one degree of arc (R * pi / 180 km)
calculate_distance_km(lat1, lon1, lat2, lon2) ==
    IF lat1 >= lat2 THEN lat1 - lat2 ELSE lat2 - lat1

\* the category sent as supplied
coerce_category_unchecked(category) == category

coerce_category(category) == IF category \notin valid_categories THEN "other" ELSE category
coerce_priority(priority) == IF priority \notin valid_priorities THEN "medium" ELSE priority

\* the properties of the page add_place creates
Properties(name, category, priority, memo, address) ==
    [name |-> name, category |-> category, priority |-> priority, visited |-> FALSE,
     has_memo |-> memo # "", memo |-> memo, has_address |-> address # "", address |-> address]

Success(text) == [returned |-> TRUE, ok |-> TRUE, text |-> text]
Failure(text) == [returned |-> TRUE, ok |-> FALSE, text |-> text]
\* a function that does not return: the exception leaves it
Raised(exc) == [returned |-> FALSE, ok |-> FALSE, text |-> [msg |-> exc]]

\* tools.add_place; postOut is the outcome of requests.post + raise_for_status
add_place(name, category, priority, memo, address, postOut) ==
    LET cat == coerce_category(category)
        pri == coerce_priority(priority)
        props == Properties(name, cat, pri, memo, address)
    IN  [log |-> <<Request_("notion_create", props)>>,
         result |-> IF postOut = "ok"
                    THEN Success([msg |-> "added", name |-> name, category |-> cat,
                                  priority |-> pri, address |-> address])
                    ELSE Failure([msg |-> "failed to add place"])]

\* agent.add_place (no address parameter)
agent_add_place(name, category, priority, memo, postOut) ==
    LET cat == coerce_category(category)
        pri == coerce_priority(priority)
        props == Properties(name, cat, pri, memo, "")
    IN  [log |-> <<Request_("notion_create", props)>>,
         result |-> IF postOut = "ok"
                    THEN Success([msg |-> "added", name |-> name, category |-> cat,
                                  priority |-> pri, address |-> ""])
                    ELSE Failure([msg |-> "failed to add place"])]

\* a page of the document store, as find_nearby_places reads it
Record(name, address, category) == [name |-> name, address |-> address, category |-> category]

Records ==
    { Record("P", "", "travel"), Record("P", "P-address", "travel"),
      Record("Q", "", ""), Record("Q", "Q-address", "") }

Place(name, category, address, distance) ==
    [name |-> name, category |-> category, address |-> address, distance |-> distance]

\* an insertion that puts a record before the records of equal distance
RECURSIVE InsertByDistance_before_equal(_, _)
InsertByDistance_before_equal(p, sorted) ==
    IF sorted = <<>> THEN <<p>>
    ELSE IF Head(sorted).distance < p.distance
         THEN <<Head(sorted)>> \o InsertByDistance_before_equal(p, Tail(sorted))
         ELSE <<p>> \o sorted

\* places_with_distance.sort(key=distance): ascending and stable
RECURSIVE InsertByDistance(_, _)
InsertByDistance(p, sorted) ==
    IF sorted = <<>> THEN <<p>>
    ELSE IF Head(sorted).distance <= p.distance
         THEN <<Head(sorted)>> \o InsertByDistance(p, Tail(sorted))
         ELSE <<p>> \o sorted

RECURSIVE SortByDistance(_)
SortByDistance(ps) ==
    IF ps = <<>> THEN <<>>
    ELSE InsertByDistance(ps[Len(ps)], SortByDistance(SubSeq(ps, 1, Len(ps) - 1)))

\* the distance test with the boundary left out
within_max_distance_exclusive(distance, max_distance_km) == distance < max_distance_km

\* "if distance <= max_distance_km"
within_max_distance(distance, max_distance_km) == distance <= max_distance_km

\* the loop over the records (lines 308-345); recOuts[i] is what
\* geocode_address returns for the address of record i
RECURSIVE scan_records(_, _, _, _, _, _)
scan_records(results, recOuts, i, ref, max_distance_km, acc) ==
    IF i > Len(results) THEN acc
    ELSE LET item == results[i]
             place_coords == recOuts[i]
             distance == calculate_distance_km(ref.lat, ref.lon,
                                               place_coords.lat, place_coords.lon)
         IN  IF item.address = ""
             THEN scan_records(results, recOuts, i + 1, ref, max_distance_km,
                     [acc EXCEPT !.without =
                         Append(@, [name |-> item.name, category |-> item.category,
                                    address |-> ""])])
             ELSE IF ~place_coords.found
             THEN scan_records(results, recOuts, i + 1, ref, max_distance_km,
                     [acc EXCEPT !.without =
                         Append(@, [name |-> item.name, category |-> item.category,
                                    address |-> item.address]),
                                 !.log = Append(@, Request_("geocode", item.address))])
             ELSE scan_records(results, recOuts, i + 1, ref, max_distance_km,
                     [acc EXCEPT !.with =
                         IF within_max_distance(distance, max_distance_km)
                         THEN Append(@, Place(item.name, item.category,
                                              item.address, distance))
                         ELSE @,
                                 !.log = Append(@, Request_("geocode", item.address))])

Names(ps) == [i \in DOMAIN ps |-> ps[i].name]

\* every unlocatable name listed
shown_names_all(without) == Names(without)

\* "for place in places_without_address[:5]"
shown_names(without) == Names(Take(without, MaxUnlocatableShown))

\* "... 他 {len(places_without_address) - 5} 件", 0 when the line is not written
remainder(without) == Max(0, Len(without) - MaxUnlocatableShown)

\* the early return of find_nearby_places without the check of ref_coords
reference_unresolved_never(ref_coords) == FALSE

\* "if not ref_coords"
reference_unresolved(ref_coords) == ~ref_coords.found

\* tools.find_nearby_places; refOut is what geocode_address returns for the
\* reference, storeOut the outcome of the query, results the records returned
find_nearby_places(reference_location, max_distance_km, refOut, storeOut, results, recOuts) ==
    LET refCall == <<Request_("geocode", reference_location)>>
        query == <<Request_("notion_query", "not soft-deleted")>>
        scanned == scan_records(results, recOuts, 1, refOut, max_distance_km,
                                [with |-> <<>>, without |-> <<>>, log |-> <<>>])
        ranked == SortByDistance(scanned.with)
    IN  IF reference_unresolved(refOut)
        THEN [log |-> refCall,
              result |-> Failure([msg |-> "reference location not resolved"])]
        ELSE IF storeOut = "error"
        THEN [log |-> refCall \o query,
              result |-> Failure([msg |-> "document store query failed"])]
        ELSE IF storeOut = "unexpected body"
        THEN \* data.get / item.get on a value that is not a dict: AttributeError,
             \* outside the try of lines 292-298
             [log |-> refCall \o query, result |-> Raised("AttributeError")]
        ELSE IF results = <<>>
        THEN [log |-> refCall \o query,
              result |-> Success([msg |-> "no places registered"])]
        ELSE [log |-> refCall \o query \o scanned.log,
              result |-> Success(
                  [msg |-> "nearby places",
                   ranked |-> ranked,
                   none_matched |-> ranked = <<>>,
                   unlocatable |-> Len(scanned.without),
                   shown |-> shown_names(scanned.without),
                   more |-> remainder(scanned.without)])]

\* what the address-search request of geocode_address ends in: a JSON list of
\* matches, each with coordinates <<longitude, latitude>>, or a failure
\* (requests.get raises, raise_for_status raises, the body is not the
\* expected JSON)
ServiceAnswer(matches) == [kind |-> "ok", matches |-> matches]
ServiceFailure(kind) == [kind |-> kind, matches |-> <<>>]

ServiceFailures ==
    { ServiceFailure(k) : k \in {"transport error", "timeout", "http error", "malformed body"} }

\* the matches the service may return, as <<longitude, latitude>>
Matches == { <<139, lat>> : lat \in 35..37 }

MaxMatches == 2

ServiceOutcomes ==
    ServiceFailures \cup
    UNION { { ServiceAnswer(m) : m \in [1..n -> Matches] } : n \in 0..MaxMatches }

\* the first match taken in the order the service gives it
first_match_unswapped(results) == Coordinate(results[1][1], results[1][2])

\* "lon, lat = results[0][...]; return (lat, lon)"
first_match(results) == Coordinate(results[1][2], results[1][1])

\* tools.geocode_address: the one request it issues and what it returns
geocode_address(query, svc) ==
    [log |-> <<Request_("geocode", query)>>,
     coords |-> IF svc.kind = "ok" /\ svc.matches # <<>>
                THEN first_match(svc.matches)
                ELSE NotFound]

\* tools.geocode
geocode(query, svc) ==
    LET r == geocode_address(query, svc)
    IN  [log |-> r.log,
         result |-> IF r.coords.found
                    THEN Success([msg |-> "coordinates", name |-> query,
                                  lat |-> r.coords.lat, lon |-> r.coords.lon])
                    ELSE Failure([msg |-> "coordinates not resolved", name |-> query])]

\* a get_distance that geocodes both places before it looks at either result
get_distance_both_first(origin, destination, originSvc, destSvc) ==
    LET o == geocode_address(origin, originSvc)
        d == geocode_address(destination, destSvc)
    IN  [log |-> o.log \o d.log,
         result |-> IF ~o.coords.found
                    THEN Failure([msg |-> "origin not resolved", name |-> origin])
                    ELSE IF ~d.coords.found
                    THEN Failure([msg |-> "destination not resolved", name |-> destination])
                    ELSE Success([msg |-> "distance", name |-> origin, to |-> destination,
                                  distance |-> calculate_distance_km(
                                      o.coords.lat, o.coords.lon, d.coords.lat, d.coords.lon)])]

\* tools.get_distance
get_distance(origin, destination, originSvc, destSvc) ==
    LET o == geocode_address(origin, originSvc)
        d == geocode_address(destination, destSvc)
    IN  IF ~o.coords.found
        THEN [log |-> o.log,
              result |-> Failure([msg |-> "origin not resolved", name |-> origin])]
        ELSE IF ~d.coords.found
        THEN [log |-> o.log \o d.log,
              result |-> Failure([msg |-> "destination not resolved", name |-> destination])]
        ELSE [log |-> o.log \o d.log,
              result |-> Success([msg |-> "distance", name |-> origin, to |-> destination,
                                  distance |-> calculate_distance_km(
                                      o.coords.lat, o.coords.lon, d.coords.lat, d.coords.lon)])]

\* _TRAVEL_MODE_MAP, the Japanese keys written with the English words of the
\* spec (car, train, walk, bicycle)
TRAVEL_MODE_MAP ==
    [m \in {"car", "driving", "train", "transit", "walk", "walking", "bicycle", "bicycling"} |->
        CASE m \in {"car", "driving"} -> "driving"
          [] m \in {"train", "transit"} -> "transit"
          [] m \in {"walk", "walking"} -> "walking"
          [] OTHER -> "bicycling"]

\* the values of travel_mode a caller supplies, and str.lower on them
TravelModes == {"", "car", "driving", "DRIVING", "Walking", "transit", "bicycle", "hoge"}

lower(mode) ==
    CASE mode = "DRIVING" -> "driving"
      [] mode = "Walking" -> "walking"
      [] OTHER -> mode

\* a lookup that takes travel_mode as written
resolve_mode_case_sensitive(travel_mode) ==
    IF travel_mode = "" THEN ""
    ELSE IF travel_mode \in DOMAIN TRAVEL_MODE_MAP
         THEN TRAVEL_MODE_MAP[travel_mode] ELSE ""

\* resolved_mode: _TRAVEL_MODE_MAP.get(travel_mode.lower(), "") when travel_mode
resolve_mode(travel_mode) ==
    IF travel_mode = "" THEN ""
    ELSE IF lower(travel_mode) \in DOMAIN TRAVEL_MODE_MAP
         THEN TRAVEL_MODE_MAP[lower(travel_mode)] ELSE ""

\* urllib.parse.quote of one character: letters stay, the others become
\* "%" and two hexadecimal digits
quote_char(c) ==
    CASE c = " " -> <<"%", "2", "0">>
      [] c = "|" -> <<"%", "7", "C">>
      [] c = "&" -> <<"%", "2", "6">>
      [] OTHER -> <<c>>

RECURSIVE quote(_)
quote(text) ==
    IF text = <<>> THEN <<>> ELSE quote_char(Head(text)) \o quote(Tail(text))

\* str.split(sep): the segments between the separators, empty ones included
RECURSIVE split(_, _, _)
split(text, sep, seg) ==
    IF text = <<>> THEN <<seg>>
    ELSE IF Head(text) = sep THEN <<seg>> \o split(Tail(text), sep, <<>>)
    ELSE split(Tail(text), sep, Append(seg, Head(text)))

\* str.strip()
RECURSIVE lstrip(_)
lstrip(text) ==
    IF text # <<>> /\ Head(text) \in Whitespace THEN lstrip(Tail(text)) ELSE text

RECURSIVE rstrip(_)
rstrip(text) ==
    IF text # <<>> /\ text[Len(text)] \in Whitespace
    THEN rstrip(SubSeq(text, 1, Len(text) - 1)) ELSE text

strip(text) == rstrip(lstrip(text))

\* sep.join(parts)
RECURSIVE join(_, _)
join(parts, sep) ==
    IF parts = <<>> THEN <<>>
    ELSE IF Len(parts) = 1 THEN parts[1]
    ELSE parts[1] \o sep \o join(Tail(parts), sep)

NotEmpty(text) == text # <<>>

\* [wp.strip() for wp in waypoints.split("|") if wp.strip()] if waypoints else []
waypoint_list(waypoints) ==
    IF waypoints = <<>> THEN <<>>
    ELSE LET parts == split(waypoints, "|", <<>>)
         IN  SelectSeq([i \in DOMAIN parts |-> strip(parts[i])], NotEmpty)

\* the waypoints joined first and encoded as one string
encoded_waypoints_whole(wps) == quote(join(wps, <<"|">>))

\* "|".join(quote(wp) for wp in waypoint_list)
encoded_waypoints(wps) == join([i \in DOMAIN wps |-> quote(wps[i])], <<"|">>)

Param(key, value) == [key |-> key, value |-> value]

\* tools.get_google_maps_route_url: the parameters of the URL in their order,
\* the URL as text ("key=" written as one symbol), and the lines of the echo
get_google_maps_route_url(origin, destination, waypoints, travel_mode) ==
    LET wps == waypoint_list(waypoints)
        resolved_mode == resolve_mode(travel_mode)
        params ==
            <<Param("origin", quote(origin)), Param("destination", quote(destination))>>
            \o (IF wps # <<>> THEN <<Param("waypoints", encoded_waypoints(wps))>> ELSE <<>>)
            \o (IF travel_mode # "" /\ resolved_mode # ""
                THEN <<Param("travelmode", <<resolved_mode>>)>> ELSE <<>>)
        url == <<"https://www.google.com/maps/dir/?api=1&">>
               \o join([i \in DOMAIN params |-> <<params[i].key, "=">> \o params[i].value],
                       <<"&">>)
    IN  [log |-> <<>>,
         result |-> Success([msg |-> "route", params |-> params, url |-> url,
                             origin |-> origin, destination |-> destination,
                             waypoints |-> wps,
                             mode_line |-> IF travel_mode = "" THEN "none"
                                           ELSE IF resolved_mode # "" THEN "mode"
                                           ELSE "invalid mode warning",
                             mode |-> travel_mode])]

\* "if len(text) > 5000: text = text[:4997] + '...'"
LineTextLimit == 5000
KeptLen == 4997
EllipsisLen == 3

\* a text of len characters: the first prefix characters of the reply,
\* followed by "..." when ellipsis
Text(len) == [len |-> len, prefix |-> len, ellipsis |-> FALSE]

\* a cut that keeps as many characters as the limit before the ellipsis
truncate_keeping_limit(text) ==
    IF text.len > LineTextLimit
    THEN [len |-> Min(text.len, LineTextLimit) + EllipsisLen,
          prefix |-> Min(text.len, LineTextLimit), ellipsis |-> TRUE]
    ELSE text

truncate(text) ==
    IF text.len > LineTextLimit
    THEN [len |-> Min(text.len, KeptLen) + EllipsisLen,
          prefix |-> Min(text.len, KeptLen), ellipsis |-> TRUE]
    ELSE text

\* handler.push_message: the request to the push endpoint; a failure of the
\* request leaves the function as an exception
push_message(to, text, outcome) ==
    [log |-> <<Request_("line_push", [to |-> to, text |-> truncate(text)])>>,
     result |-> IF outcome = "ok" THEN Success([msg |-> "sent"])
                ELSE Raised("push failed")]

\* LineHandler._push_message: the same request; a failure is logged and the
\* function returns
LineHandler_push_message(to, text, outcome) ==
    [log |-> <<Request_("line_push", [to |-> to, text |-> truncate(text)])>>,
     result |-> IF outcome = "ok" THEN Success([msg |-> "sent"])
                ELSE Failure([msg |-> "push failed, logged"])]

ToolCall(name, args, env) == [name |-> name, args |-> args, env |-> env]

Categories == valid_categories \cup {"invalid", ""}
Priorities == valid_priorities \cup {"urgent"}
PostOutcomes == {"ok", "error"}
\* the query of the document store: the expected JSON object, a
\* RequestException, or a JSON body of another shape (a list, a null record)
QueryOutcomes == {"ok", "error", "unexpected body"}

AddPlace ==
    /\ toolCall = NoToolCall
    /\ \E name \in {"", "Tower"}, category \in Categories, priority \in Priorities,
          memo \in {"", "memo"}, address \in {"", "Minato"}, postOut \in PostOutcomes :
          LET r == add_place(name, category, priority, memo, address, postOut)
          IN  /\ toolCall' = ToolCall("add_place",
                                [name |-> name, category |-> category, priority |-> priority,
                                 memo |-> memo, address |-> address],
                                [postOut |-> postOut])
              /\ toolLog' = r.log
              /\ toolResult' = r.result
    /\ UNCHANGED <<whVars, stripVars, mcpVars>>

AgentAddPlace ==
    /\ toolCall = NoToolCall
    /\ \E name \in {"", "Tower"}, category \in Categories, priority \in Priorities,
          memo \in {"", "memo"}, postOut \in PostOutcomes :
          LET r == agent_add_place(name, category, priority, memo, postOut)
          IN  /\ toolCall' = ToolCall("agent.add_place",
                                [name |-> name, category |-> category, priority |-> priority,
                                 memo |-> memo, address |-> ""],
                                [postOut |-> postOut])
              /\ toolLog' = r.log
              /\ toolResult' = r.result
    /\ UNCHANGED <<whVars, stripVars, mcpVars>>

\* max_distance_km, in the unit of calculate_distance_km
MaxDistances == {0, 1}

FindNearbyPlaces ==
    /\ toolCall = NoToolCall
    /\ \E max_distance_km \in MaxDistances, refOut \in GeoOutcomes,
          storeOut \in QueryOutcomes, n \in 0..MaxRecords :
          \E results \in [1..n -> Records], recOuts \in [1..n -> GeoOutcomes] :
             LET r == find_nearby_places("Shinjuku", max_distance_km, refOut,
                                         storeOut, results, recOuts)
             IN  /\ toolCall' = ToolCall("find_nearby_places",
                                   [reference_location |-> "Shinjuku",
                                    max_distance_km |-> max_distance_km],
                                   [refOut |-> refOut, storeOut |-> storeOut,
                                    results |-> results, recOuts |-> recOuts])
                 /\ toolLog' = r.log
                 /\ toolResult' = r.result
    /\ UNCHANGED <<whVars, stripVars, mcpVars>>

Geocode ==
    /\ toolCall = NoToolCall
    /\ \E svc \in ServiceOutcomes :
          LET r == geocode("Tokyo Tower", svc)
          IN  /\ toolCall' = ToolCall("geocode", [query |-> "Tokyo Tower"], [svc |-> svc])
              /\ toolLog' = r.log
              /\ toolResult' = r.result
    /\ UNCHANGED <<whVars, stripVars, mcpVars>>

GetDistance ==
    /\ toolCall = NoToolCall
    /\ \E originSvc \in ServiceOutcomes, destSvc \in ServiceOutcomes :
          LET r == get_distance("Shinjuku", "Tokyo Tower", originSvc, destSvc)
          IN  /\ toolCall' = ToolCall("get_distance",
                                [origin |-> "Shinjuku", destination |-> "Tokyo Tower"],
                                [originSvc |-> originSvc, destSvc |-> destSvc])
              /\ toolLog' = r.log
              /\ toolResult' = r.result
    /\ UNCHANGED <<whVars, stripVars, mcpVars>>

\* the characters of the places and of the waypoints text
RouteChars == {"a", " ", "|", "&"}

RouteTexts == UNION { [1..n -> RouteChars] : n \in 0..MaxLen }

GetGoogleMapsRouteUrl ==
    /\ toolCall = NoToolCall
    /\ \E origin \in [1..1 -> RouteChars], destination \in {<<"b">>, <<"b", "|", "c">>},
          waypoints \in RouteTexts, travel_mode \in TravelModes :
          LET r == get_google_maps_route_url(origin, destination, waypoints, travel_mode)
          IN  /\ toolCall' = ToolCall("get_google_maps_route_url",
                                [origin |-> origin, destination |-> destination,
                                 waypoints |-> waypoints, travel_mode |-> travel_mode],
                                [none |-> TRUE])
              /\ toolLog' = r.log
              /\ toolResult' = r.result
    /\ UNCHANGED <<whVars, stripVars, mcpVars>>

InitTools == WebhookIdle /\ StripIdle /\ ToolIdle /\ McpIdle

NextTools ==
    \/ AddPlace \/ AgentAddPlace \/ FindNearbyPlaces
    \/ Geocode \/ GetDistance \/ GetGoogleMapsRouteUrl

SpecTools == InitTools /\ [][NextTools]_vars

(***************************************************************************)
(* The push functions of the two front ends, called with a reply.          *)
(***************************************************************************)
\* the lengths of the replies: around the limit, short, and long
ReplyLengths ==
    {0, 1, 2 * LineTextLimit}
    \cup { KeptLen + d : d \in 0..(2 * EllipsisLen) }
    \cup { KeptLen - d : d \in 1..EllipsisLen }

Recipients == {UserShort, GroupLine, RoomShort}

PushMessage ==
    /\ toolCall = NoToolCall
    /\ \E to \in Recipients, len \in ReplyLengths, outcome \in PushOutcomes :
          LET r == push_message(to, Text(len), outcome)
          IN  /\ toolCall' = ToolCall("push_message", [to |-> to, text |-> Text(len)],
                                     [outcome |-> outcome])
              /\ toolLog' = r.log
              /\ toolResult' = r.result
    /\ UNCHANGED <<whVars, stripVars, mcpVars>>

LineHandlerPushMessage ==
    /\ toolCall = NoToolCall
    /\ \E to \in Recipients, len \in ReplyLengths, outcome \in PushOutcomes :
          LET r == LineHandler_push_message(to, Text(len), outcome)
          IN  /\ toolCall' = ToolCall("LineHandler._push_message",
                                     [to |-> to, text |-> Text(len)], [outcome |-> outcome])
              /\ toolLog' = r.log
              /\ toolResult' = r.result
    /\ UNCHANGED <<whVars, stripVars, mcpVars>>

InitPush == WebhookIdle /\ StripIdle /\ ToolIdle /\ McpIdle

NextPush == PushMessage \/ LineHandlerPushMessage

SpecPush == InitPush /\ [][NextPush]_vars

(***************************************************************************)
(* find_nearby_places over a longer answer of the document store.          *)
(***************************************************************************)
MaxStored == 6

\* the names of the stored places, by their position in the answer
StoredNames == <<"N1", "N2", "N3", "N4", "N5", "N6", "N7", "N8">>

\* what a stored record is like: without an address, with an address the
\* address search does not resolve, with one at the reference, with one a
\* degree away
RecordKinds == {"no address", "unresolved", "near", "far"}

StoredRecord(i, kind) ==
    Record(StoredNames[i], IF kind = "no address" THEN "" ELSE "address", "travel")

StoredOutcome(kind) ==
    CASE kind = "near" -> Coordinate(36, 139)
      [] kind = "far" -> Coordinate(37, 139)
      [] OTHER -> NotFound

FindNearbyPlacesMany ==
    /\ toolCall = NoToolCall
    /\ \E n \in 0..MaxStored : \E kinds \in [1..n -> RecordKinds] :
          LET results == [i \in 1..n |-> StoredRecord(i, kinds[i])]
              recOuts == [i \in 1..n |-> StoredOutcome(kinds[i])]
              r == find_nearby_places("Shinjuku", 0, Coordinate(36, 139), "ok",
                                      results, recOuts)
          IN  /\ toolCall' = ToolCall("find_nearby_places",
                                [reference_location |-> "Shinjuku", max_distance_km |-> 0],
                                [refOut |-> Coordinate(36, 139), storeOut |-> "ok",
                                 results |-> results, recOuts |-> recOuts])
              /\ toolLog' = r.log
              /\ toolResult' = r.result
    /\ UNCHANGED <<whVars, stripVars, mcpVars>>

InitNearby == WebhookIdle /\ StripIdle /\ ToolIdle /\ McpIdle

NextNearby == FindNearbyPlacesMany

SpecNearby == InitNearby /\ [][NextNearby]_vars

(***************************************************************************)
(* src/agent.py: get_notion_mcp_client, called by the background threads   *)
(* (_process_message_async -> invoke_agent -> create_agent). A thread may  *)
(* be suspended between any two of its steps.                              *)
(***************************************************************************)
MaxThreads == 3

McpThreads == 1..MaxThreads

\* _handle_text_message starts a thread, which reaches get_notion_mcp_client
McpThreadStart(t) ==
    /\ mcpPc[t] = "off"
    /\ mcpPc' = [mcpPc EXCEPT ![t] = "check"]
    /\ UNCHANGED <<notion_mcp_client, mcpNew, mcpGot, mcpCreated>>
    /\ UNCHANGED <<whVars, stripVars, toolVars>>

\* "if _notion_mcp_client is None:"
McpCheck(t) ==
    /\ mcpPc[t] = "check"
    /\ mcpPc' = [mcpPc EXCEPT ![t] = IF notion_mcp_client = NoClient THEN "create"
                                      ELSE "return"]
    /\ UNCHANGED <<notion_mcp_client, mcpNew, mcpGot, mcpCreated>>
    /\ UNCHANGED <<whVars, stripVars, toolVars>>

\* the call create_notion_mcp_client() on the right of the assignment
McpCreate(t) ==
    /\ mcpPc[t] = "create"
    /\ mcpNew' = [mcpNew EXCEPT ![t] = Client(t)]
    /\ mcpCreated' = mcpCreated + 1
    /\ mcpPc' = [mcpPc EXCEPT ![t] = "store"]
    /\ UNCHANGED <<notion_mcp_client, mcpGot>>
    /\ UNCHANGED <<whVars, stripVars, toolVars>>

\* "_notion_mcp_client = ..."
McpStore(t) ==
    /\ mcpPc[t] = "store"
    /\ notion_mcp_client' = mcpNew[t]
    /\ mcpPc' = [mcpPc EXCEPT ![t] = "return"]
    /\ UNCHANGED <<mcpNew, mcpGot, mcpCreated>>
    /\ UNCHANGED <<whVars, stripVars, toolVars>>

\* "return _notion_mcp_client"
McpReturn(t) ==
    /\ mcpPc[t] = "return"
    /\ mcpGot' = [mcpGot EXCEPT ![t] = notion_mcp_client]
    /\ mcpPc' = [mcpPc EXCEPT ![t] = "done"]
    /\ UNCHANGED <<notion_mcp_client, mcpNew, mcpCreated>>
    /\ UNCHANGED <<whVars, stripVars, toolVars>>

InitSingleton ==
    /\ WebhookIdle /\ StripIdle /\ ToolIdle
    /\ notion_mcp_client = NoClient /\ mcpCreated = 0
    /\ mcpPc = [t \in McpThreads |-> "off"]
    /\ mcpNew = [t \in McpThreads |-> NoClient]
    /\ mcpGot = [t \in McpThreads |-> NoClient]

NextSingleton ==
    \E t \in McpThreads :
        \/ McpThreadStart(t) \/ McpCheck(t) \/ McpCreate(t)
        \/ McpStore(t) \/ McpReturn(t)

SpecSingleton == InitSingleton /\ [][NextSingleton]_vars

(***************************************************************************)
(* Properties of the tool functions.                                       *)
(***************************************************************************)
IsAddPlace == toolCall.name \in {"add_place", "agent.add_place"}
IsFindNearby == toolCall.name = "find_nearby_places"

\* C7: add_place with an empty name returns a failure result and issues no
\* create-record request.
C7_EmptyNameRejected ==
    (IsAddPlace /\ toolCall.args.name = "") =>
        /\ ~toolResult.ok
        /\ toolLog = <<>>

\* C8: the category and the priority add_place sends are members of the
\* enumerations: a supplied member is sent unchanged, any other value is
\* replaced by "other" / "medium", and the call is not rejected for it (it
\* fails only when the create-record request fails).
C8_CategoryPriorityCoerced ==
    IsAddPlace =>
        /\ Len(toolLog) = 1 /\ toolLog[1].service = "notion_create"
        /\ LET sent == toolLog[1].arg
               args == toolCall.args
           IN  /\ sent.category \in {"travel", "dining", "shopping", "other"}
               /\ sent.priority \in {"high", "medium", "low"}
               /\ sent.category =
                     (IF args.category \in {"travel", "dining", "shopping", "other"}
                      THEN args.category ELSE "other")
               /\ sent.priority =
                     (IF args.priority \in {"high", "medium", "low"}
                      THEN args.priority ELSE "medium")
        /\ toolResult.ok <=> toolCall.env.postOut = "ok"

\* tools.add_place was called with a category and a priority outside the
\* enumerations and returned success
C8_Witness ==
    /\ toolCall.name = "add_place"
    /\ toolCall.args.category = "invalid" /\ toolCall.args.priority = "urgent"
    /\ toolResult.ok
    /\ toolLog[1].arg.category = "other" /\ toolLog[1].arg.priority = "medium"

\* C9: when the reference location is not resolved, find_nearby_places
\* returns a failure and has issued the one geocoding call for the reference
\* and nothing else: no document-store query, no further geocoding call.
C9_UnresolvedReferenceReturnsAtOnce ==
    (IsFindNearby /\ ~toolCall.env.refOut.found) =>
        /\ toolResult.returned /\ ~toolResult.ok
        /\ toolLog = <<Request_("geocode", toolCall.args.reference_location)>>

\* the reference was not resolved although the store would have answered with
\* a record whose address resolves
C9_Witness ==
    /\ IsFindNearby /\ ~toolCall.env.refOut.found
    /\ toolCall.env.storeOut = "ok"
    /\ \E i \in DOMAIN toolCall.env.results :
          toolCall.env.results[i].address # "" /\ toolCall.env.recOuts[i].found
    /\ toolResult.returned

\* the distance of record i from the reference, both resolved
DistanceOf(i) ==
    LET a == toolCall.env.refOut.lat
        b == toolCall.env.recOuts[i].lat
    IN  IF a >= b THEN a - b ELSE b - a

\* record i has an address, the address resolves, and it is in range
InRange(i) ==
    /\ toolCall.env.results[i].address # ""
    /\ toolCall.env.recOuts[i].found
    /\ DistanceOf(i) <= toolCall.args.max_distance_km

EntryOf(i) ==
    Place(toolCall.env.results[i].name, toolCall.env.results[i].category,
          toolCall.env.results[i].address, DistanceOf(i))

Occurrences(seq, x) == Cardinality({ i \in DOMAIN seq : seq[i] = x })

Listed == IsFindNearby /\ toolResult.ok /\ toolCall.env.results # <<>>

\* C10: the numbered list of find_nearby_places holds exactly the records the
\* store returned whose address is not empty, resolves, and lies within
\* max_distance_km (the boundary included), each as often as the store
\* returned it, and nothing else.
C10_RankedExactlyWithinRange ==
    Listed =>
        LET ranked == toolResult.text.ranked
            wanted == { i \in DOMAIN toolCall.env.results : InRange(i) }
        IN  /\ Len(ranked) = Cardinality(wanted)
            /\ \A i \in wanted :
                  Occurrences(ranked, EntryOf(i))
                      = Cardinality({ j \in wanted : EntryOf(j) = EntryOf(i) })
            /\ \A k \in DOMAIN ranked : \E i \in wanted : ranked[k] = EntryOf(i)

\* of two records returned, the one exactly at max_distance_km is listed and
\* the one farther away is not
C10_Witness ==
    /\ Listed
    /\ Len(toolCall.env.results) = 2
    /\ Len(toolResult.text.ranked) = 1
    /\ toolResult.text.ranked[1].distance = toolCall.args.max_distance_km
    /\ toolCall.args.max_distance_km > 0
    /\ \E i \in DOMAIN toolCall.env.results :
          /\ toolCall.env.results[i].address # "" /\ toolCall.env.recOuts[i].found
          /\ DistanceOf(i) > toolCall.args.max_distance_km

\* the orders in which the kept records may be listed: one record per position
Listings(wanted) ==
    { f \in [1..Cardinality(wanted) -> wanted] :
        \A k, l \in 1..Cardinality(wanted) : k # l => f[k] # f[l] }

\* C11: the numbered list of find_nearby_places is in ascending order of
\* distance, and kept records of equal distance are listed in the order in
\* which the store returned them; so the list is the one listing of the kept
\* records that is ordered by (distance, position in the store's answer).
C11_RankedAscendingStable ==
    Listed =>
        LET ranked == toolResult.text.ranked
            wanted == { i \in DOMAIN toolCall.env.results : InRange(i) }
        IN  /\ \A k, l \in DOMAIN ranked :
                  k < l => ranked[k].distance <= ranked[l].distance
            /\ \E f \in Listings(wanted) :
                  /\ Len(ranked) = Cardinality(wanted)
                  /\ \A k \in DOMAIN ranked : ranked[k] = EntryOf(f[k])
                  /\ \A k, l \in DOMAIN ranked :
                        (k < l /\ DistanceOf(f[k]) = DistanceOf(f[l])) => f[k] < f[l]

\* the store returned Q before P, both at the same distance within range, and
\* Q is listed before P
C11_Witness ==
    /\ Listed
    /\ Len(toolCall.env.results) = 2
    /\ toolCall.env.results[1].name = "Q" /\ toolCall.env.results[2].name = "P"
    /\ InRange(1) /\ InRange(2)
    /\ DistanceOf(1) = DistanceOf(2) /\ DistanceOf(1) > 0
    /\ Names(toolResult.text.ranked) = <<"Q", "P">>

IsGetDistance == toolCall.name = "get_distance"

\* what the address search gave for a place: a first match, or nothing
Resolves(svc) == svc.kind = "ok" /\ Len(svc.matches) >= 1

\* C12: get_distance asks for the origin first. If the origin is not resolved
\* it returns a failure naming the origin and has issued no request for the
\* destination; if the origin is resolved and the destination is not, it
\* returns a failure naming the destination; it returns a distance exactly
\* when both are resolved.
C12_OriginFirstThenDestination ==
    IsGetDistance =>
        LET origin == toolCall.args.origin
            destination == toolCall.args.destination
            o == Resolves(toolCall.env.originSvc)
            d == Resolves(toolCall.env.destSvc)
        IN  /\ toolLog # <<>> /\ toolLog[1] = Request_("geocode", origin)
            /\ ~o => /\ toolLog = <<Request_("geocode", origin)>>
                      /\ ~toolResult.ok /\ toolResult.text.name = origin
                      /\ toolResult.text.msg = "origin not resolved"
            /\ (o /\ ~d) => /\ toolLog = <<Request_("geocode", origin),
                                             Request_("geocode", destination)>>
                             /\ ~toolResult.ok /\ toolResult.text.name = destination
                             /\ toolResult.text.msg = "destination not resolved"
            /\ (toolResult.ok /\ toolResult.text.msg = "distance") <=> (o /\ d)

\* the origin was not resolved although the destination would have been
C12_Witness ==
    /\ IsGetDistance
    /\ ~Resolves(toolCall.env.originSvc) /\ Resolves(toolCall.env.destSvc)
    /\ toolResult.returned /\ ~toolResult.ok
    /\ Len(toolLog) = 1

IsRoute == toolCall.name = "get_google_maps_route_url"

\* the values of the parameters of the URL with a key
ValuesOf(key) ==
    LET ps == toolResult.text.params
    IN  [i \in 1..Cardinality({ j \in DOMAIN ps : ps[j].key = key }) |->
            ps[CHOOSE j \in DOMAIN ps :
                  /\ ps[j].key = key
                  /\ Cardinality({ h \in 1..j : ps[h].key = key }) = i].value]

\* the waypoints as supplied: the text between the "|" characters
SuppliedWaypoints ==
    IF toolCall.args.waypoints = <<>> THEN <<>>
    ELSE split(toolCall.args.waypoints, "|", <<>>)

Blank(text) == \A i \in DOMAIN text : text[i] \in Whitespace
NotBlank(text) == ~Blank(text)

\* what the claim says of the URL, for the list of waypoints it counts
RouteUrlCarries(wps) ==
    /\ ValuesOf("origin") = <<quote(toolCall.args.origin)>>
    /\ ValuesOf("destination") = <<quote(toolCall.args.destination)>>
    /\ wps = <<>> => ValuesOf("waypoints") = <<>>
    /\ wps # <<>> =>
          /\ ValuesOf("waypoints") = <<join([i \in DOMAIN wps |-> quote(wps[i])], <<"|">>)>>
          /\ Occurrences(ValuesOf("waypoints")[1], "|") = Len(wps) - 1
    /\ Occurrences(toolResult.text.url, "|") = Max(0, Len(wps) - 1)

\* C13 as stated: origin, destination and each waypoint are percent-encoded,
\* the encoded waypoints are joined by literal "|", the number of "|" is one
\* less than the number of non-empty waypoints, and without a non-empty
\* waypoint the URL has no waypoints parameter.
C13_WaypointsEncodedAndJoined ==
    IsRoute => RouteUrlCarries(SelectSeq(SuppliedWaypoints, NotEmpty))

\* C13, for the waypoints that are not blank, each with the white space around
\* it removed: these are percent-encoded one by one and joined by literal "|";
\* the number of "|" in the URL is one less than their number, and without
\* one the URL has no waypoints parameter.
C13_TrimmedWaypointsEncodedAndJoined ==
    IsRoute =>
        LET kept == SelectSeq(SuppliedWaypoints, NotBlank)
        IN  RouteUrlCarries([i \in DOMAIN kept |-> strip(kept[i])])

\* waypoints "a|&": two waypoints, the second one encoded, one literal "|";
\* the "|" of the destination is encoded
C13_Witness ==
    /\ IsRoute
    /\ toolCall.args.waypoints = <<"a", "|", "&">>
    /\ toolCall.args.destination = <<"b", "|", "c">>
    /\ ValuesOf("waypoints") = << <<"a", "|", "%", "2", "6">> >>
    /\ ValuesOf("destination") = << <<"b", "%", "7", "C", "c">> >>

\* the service value of a travel mode of the vocabulary written in lower case,
\* "" for any other
ServiceMode(mode) ==
    CASE mode \in {"car", "driving"} -> "driving"
      [] mode \in {"train", "transit"} -> "transit"
      [] mode \in {"walk", "walking"} -> "walking"
      [] mode \in {"bicycle", "bicycling"} -> "bicycling"
      [] OTHER -> ""

\* travel_mode with its upper-case letters made lower case
Lowered(mode) ==
    CASE mode = "DRIVING" -> "driving"
      [] mode = "Walking" -> "walking"
      [] OTHER -> mode

\* C14: the URL has a travelmode parameter exactly when travel_mode, compared
\* without regard to case, is in the vocabulary, and the parameter then has the
\* mapped service value; a non-empty travel_mode outside the vocabulary gives no
\* parameter and the invalid-mode warning; an empty travel_mode gives neither.
C14_TravelModeIffRecognised ==
    IsRoute =>
        LET mode == toolCall.args.travel_mode
            wanted == ServiceMode(Lowered(mode))
        IN  /\ wanted # "" => /\ ValuesOf("travelmode") = << <<wanted>> >>
                               /\ toolResult.text.mode_line = "mode"
            /\ wanted = "" => ValuesOf("travelmode") = <<>>
            /\ (mode # "" /\ wanted = "") <=> toolResult.text.mode_line = "invalid mode warning"
            /\ mode = "" => toolResult.text.mode_line = "none"
            /\ Occurrences(toolResult.text.url, "travelmode") = (IF wanted # "" THEN 1 ELSE 0)

\* travel_mode "DRIVING" gives travelmode=driving and no warning
C14_Witness ==
    /\ IsRoute
    /\ toolCall.args.travel_mode = "DRIVING"
    /\ ValuesOf("travelmode") = << <<"driving">> >>
    /\ toolResult.text.mode_line = "mode"

IsPush == toolCall.name \in {"push_message", "LineHandler._push_message"}

\* C15: the text sent to the push endpoint has at most 5000 characters: a
\* reply of at most 5000 characters is sent as it is, and a longer reply is
\* sent as its first 4997 characters followed by the three characters "...",
\* which is exactly 5000 characters.
C15_PushedTextAtMostLimit ==
    IsPush =>
        LET reply == toolCall.args.text
            sent == toolLog[1].arg.text
        IN  /\ Len(toolLog) = 1 /\ toolLog[1].service = "line_push"
            /\ sent.len <= 5000
            /\ reply.len <= 5000 => sent = reply
            /\ reply.len > 5000 =>
                  /\ sent.prefix = 4997 /\ sent.ellipsis
                  /\ sent.len = 5000

\* a reply of 5001 characters was pushed by the Lambda function as 4997
\* characters and the ellipsis
C15_Witness ==
    /\ toolCall.name = "push_message"
    /\ toolCall.args.text.len = 5001
    /\ toolLog[1].arg.text = [len |-> 5000, prefix |-> 4997, ellipsis |-> TRUE]

\* the invocation of the agent for the event handled last did not give a reply:
\* the runtime call raised, the runtime returned its error body, or invoke_agent
\* caught an exception
InvocationFailed == eff.ran /\ eff.effects.agent_outcome \in {"raise", "error", "caught"}

\* C16: when the invocation of the agent for a dispatched event fails, every
\* text pushed to the user is a fixed apology message, never the error body of
\* the runtime or the text of the exception.
C16_FailurePushesApology ==
    InvocationFailed =>
        /\ eff.effects.pushes # <<>>
        /\ \A i \in DOMAIN eff.effects.pushes :
              /\ eff.effects.pushes[i].text \in {Apology, AgentApology}
              /\ eff.effects.pushes[i].text # ErrorPayload

IsGeocode == toolCall.name = "geocode"

\* C17: whatever the external requests end in, add_place, geocode,
\* get_distance and find_nearby_places return a result text (success or a
\* described failure); no exception leaves them.
C17_ToolsAlwaysReturn ==
    (IsAddPlace \/ IsGeocode \/ IsGetDistance \/ IsFindNearby) => toolResult.returned

\* the requests to the address search in the log of the call
GeocodeRequests == SelectSeq(toolLog, LAMBDA r : r.service = "geocode")

\* C18: one invocation of the geocoding primitive issues exactly one request
\* to the address search (geocode: one request; find_nearby_places: one for
\* the reference and one for every record with an address, repeated addresses
\* included). It gives NotFound when the service returns no match and when
\* the request fails in any way; otherwise it gives the first match, the
\* service's (longitude, latitude) returned as (latitude, longitude).
C18_OneRequestFirstMatchSwapped ==
    /\ IsGeocode =>
          LET svc == toolCall.env.svc
          IN  /\ toolLog = <<Request_("geocode", toolCall.args.query)>>
              /\ toolResult.returned
              /\ (svc.kind # "ok" \/ svc.matches = <<>>) =>
                    ~toolResult.ok /\ toolResult.text.msg = "coordinates not resolved"
              /\ (svc.kind = "ok" /\ svc.matches # <<>>) =>
                    /\ toolResult.ok
                    /\ toolResult.text.lon = svc.matches[1][1]
                    /\ toolResult.text.lat = svc.matches[1][2]
    /\ Listed =>
          Len(GeocodeRequests) =
              1 + Cardinality({ i \in DOMAIN toolCall.env.results :
                                  toolCall.env.results[i].address # "" })

\* the service returned two matches and geocode reports the first one, its
\* latitude taken from the second coordinate
C18_Witness ==
    /\ IsGeocode
    /\ toolCall.env.svc.kind = "ok" /\ Len(toolCall.env.svc.matches) = 2
    /\ toolCall.env.svc.matches[1] = <<139, 35>>
    /\ toolCall.env.svc.matches[2] = <<139, 37>>
    /\ toolResult.ok /\ toolResult.text.lat = 35 /\ toolResult.text.lon = 139
    /\ Len(toolLog) = 1

\* C19: for a dispatched event exactly one request is made to the push
\* endpoint, whether the agent gives a reply or not and whether the push
\* succeeds or fails; a failed push is not followed by another push.
C19_ExactlyOnePushPerEvent ==
    (eff.ran /\ eff.effects.dispatch.dispatched) =>
        Len(eff.effects.pushes) = 1

\* record i of the store's answer has no address, or its address is not resolved
Unlocatable(i) ==
    toolCall.env.results[i].address = "" \/ ~toolCall.env.recOuts[i].found

\* record i has a resolved address farther away than max_distance_km
OutOfRange(i) ==
    /\ toolCall.env.results[i].address # ""
    /\ toolCall.env.recOuts[i].found
    /\ DistanceOf(i) > toolCall.args.max_distance_km

\* the names of the records of a set of positions, in the order of the answer
RECURSIVE NamesInOrder(_, _)
NamesInOrder(positions, i) ==
    IF i > Len(toolCall.env.results) THEN <<>>
    ELSE (IF i \in positions THEN <<toolCall.env.results[i].name>> ELSE <<>>)
         \o NamesInOrder(positions, i + 1)

\* C20: a record whose address is not resolved does not end
\* find_nearby_places: the tool returns its list, has asked the address search
\* for every record with an address, and every record is ranked, left out as
\* out of range, or counted as unlocatable. The unlocatable count is the number
\* of records with an empty or unresolved address; the names listed are those
\* of the first 5 of them at most; with more than 5 the remainder shown is the
\* count minus 5.
C20_UnlocatableCountedAndCapped ==
    (IsFindNearby /\ toolCall.env.refOut.found /\ toolCall.env.storeOut = "ok"
        /\ toolCall.env.results # <<>>) =>
        LET all == DOMAIN toolCall.env.results
            unloc == { i \in all : Unlocatable(i) }
            out == { i \in all : OutOfRange(i) }
            kept == { i \in all : InRange(i) }
            names == NamesInOrder(unloc, 1)
            r == toolResult.text
        IN  /\ toolResult.returned /\ toolResult.ok
            /\ Len(GeocodeRequests) =
                  1 + Cardinality({ i \in all : toolCall.env.results[i].address # "" })
            /\ Len(r.ranked) = Cardinality(kept)
            /\ Len(r.ranked) + Cardinality(out) + r.unlocatable = Len(toolCall.env.results)
            /\ r.unlocatable = Cardinality(unloc)
            /\ Len(r.shown) <= 5
            /\ r.shown = SubSeq(names, 1, Min(5, Len(names)))
            /\ Cardinality(unloc) > 5 => r.more = Cardinality(unloc) - 5
            /\ Cardinality(unloc) <= 5 => r.more = 0

\* six records, all unlocatable, some without an address and some with an
\* address that is not resolved: five names are listed and one more is counted
C20_Witness ==
    /\ IsFindNearby /\ toolResult.returned /\ toolResult.ok
    /\ Len(toolCall.env.results) = 6
    /\ \A i \in 1..6 : Unlocatable(i)
    /\ toolCall.env.results[1].address = "" /\ toolCall.env.results[2].address # ""
    /\ toolResult.text.unlocatable = 6
    /\ toolResult.text.shown = <<"N1", "N2", "N3", "N4", "N5">>
    /\ toolResult.text.more = 1

\* C21: the Notion MCP client is constructed at most once in a process:
\* however the threads that call get_notion_mcp_client interleave,
\* create_notion_mcp_client runs at most once and every caller is returned
\* the same instance.
C21_ClientConstructedOnce ==
    /\ mcpCreated <= 1
    /\ \A t, u \in DOMAIN mcpPc :
          (mcpPc[t] = "done" /\ mcpPc[u] = "done") => mcpGot[t] = mcpGot[u]

\* a step that invokes the agent (and pushes the reply) for a dispatched event
AgentStep == agentLog' # agentLog

\* a step of the endpoint itself: it moves through the request or answers it
EndpointStep == pc' # pc \/ events' # events \/ resp' # resp

\* C22: the endpoint acknowledges the request without waiting for the agent:
\* the invocation of the agent and the push for a dispatched event are never
\* part of a step of the endpoint (they run on a background execution unit),
\* so the acknowledgement does not depend on their completion. Claimed for
\* the Flask callback and for lambda_handler.
C22_AckDoesNotWaitForAgent == [][AgentStep => ~EndpointStep]_vars

\* the events of a batch for which process_event invokes the agent
Dispatchable(evts) == SelectSeq(evts, LAMBDA e : user_message_of(e) # <<>>)

\* C23: in lambda_handler the events of a batch with a valid signature are
\* processed one after the other, in order, whatever happens to each: when k
\* events have been taken from the batch, event k was the last one handled,
\* the agent has been invoked once for every dispatchable event among the
\* first k, and the rest of the batch is still to come; the handler returns
\* only when none is left. Its response has status 200 on every path (invalid
\* signature and a body that is not JSON included).
C23_BatchProcessedInOrder ==
    req.front = "lambda" =>
        /\ pc = "returned" => resp.statusCode = 200
        /\ (verify_signature(req.body, req.signature) /\ req.body.json
               /\ pc \in {"loop", "returned"}) =>
              LET all == req.body.events
                  n == Len(all)
                  k == n - Len(events)
                  done == Dispatchable(SubSeq(all, 1, k))
              IN  /\ events = SubSeq(all, k + 1, n)
                  /\ k > 0 => cur.handled /\ cur.event = all[k]
                  /\ Len(agentLog) = Len(done)
                  /\ \A i \in DOMAIN done : agentLog[i].conv = get_session_id(done[i])
                  /\ pc = "returned" => k = n

\* the first of two events failed (the agent call raised and the push of the
\* apology failed) and the handler is in its loop with the second still to come
C23_Witness ==
    /\ req.front = "lambda" /\ pc = "loop"
    /\ Len(req.body.events) = 2 /\ events = <<req.body.events[2]>>
    /\ cur.event = req.body.events[1]
    /\ eff.ran /\ eff.effects.agent_outcome = "raise"
    /\ eff.effects.pushes # <<>> /\ eff.effects.pushes[1].outcome = "fail"
    /\ user_message_of(req.body.events[2]) # <<>>

=============================================================================
